---- MODULE Spec2Model ----
(***************************************************************************)
(* Auto RIS Builder (app_streamlit.py / app_streamlit_fixed.py).           *)
(*                                                                         *)
(* Spec     : one run of the script: the single-input handler or the batch *)
(*            handler fills results/audit, then the output area exports.   *)
(*            The two files have the same handlers; the extraction         *)
(*            outcomes are those of app_streamlit.py, which include every  *)
(*            outcome of app_streamlit_fixed.py (there a backend exception *)
(*            becomes an empty text).                                      *)
(* SpecPar  : extract_text_from_pdf_bytes, step by step, called by NCalls  *)
(*            callers whose steps interleave on one working directory, in  *)
(*            either variant of the script.                                *)
(* SpecRis  : one registry message taken through crossref_to_meta and      *)
(*            meta_to_ris, or one record given to to_ris_lines as it is.   *)
(*                                                                         *)
(* Strings are sequences of one-character strings.  "D" stands for a       *)
(* substring that DOI_REGEX matches, "u", "p" and "T" for any other        *)
(* non-space character, " " for white space.  Python's None is <<>> and a  *)
(* present optional value x is <<x>>.                                      *)
(*                                                                         *)
(* trace records, for each processed input, which input the code resolved, *)
(* the calls it made and the exception raised, if any.  alt is the         *)
(* results/audit of the same run in which one failing item (failedAt) did  *)
(* not raise.                                                              *)
(***************************************************************************)
EXTENDS Integers, Sequences, FiniteSets, TLC

VARIABLES pc, mode, doi, url, pdf, pdfs, list_box, items, idx,
          results, audit, tmp, risInput, auditDoc, trace, alt, failedAt,
          variant, cpc, path, data, fd, reads, ret, exc, hurt,
          stage, message, record, lines, ris_text

\* The script run.
runVars == <<pc, mode, doi, url, pdf, pdfs, list_box, items, idx,
             results, audit, tmp, risInput, auditDoc, trace, alt, failedAt>>
\* The interleaved extraction calls.
parVars == <<variant, cpc, path, data, fd, reads, ret, exc, hurt>>

\* One registry message taken through crossref_to_meta, to_ris_lines and
\* meta_to_ris.
risVars == <<stage, message, record, lines, ris_text>>

vars == <<runVars, parVars, risVars>>

\* ------------------------------------------------------------------ bounds
MaxPdfs == 1
MaxLines == 2
NCalls == 2
MaxList == 2

\* ----------------------------------------------------------------- helpers
None == <<>>
Some(x) == <<x>>
Truthy(s) == Len(s) > 0

IsSpace(c) == c \in {" ", "\n"}

RECURSIVE LStrip(_)
LStrip(s) ==
  IF s = <<>> THEN s
  ELSE IF IsSpace(Head(s)) THEN LStrip(Tail(s)) ELSE s

RECURSIVE RStrip(_)
RStrip(s) ==
  IF s = <<>> THEN s
  ELSE IF IsSpace(s[Len(s)]) THEN RStrip(SubSeq(s, 1, Len(s) - 1)) ELSE s

Strip(s) == RStrip(LStrip(s))

\* DOI_REGEX.search(s): the first match, or None.
DOI_REGEX_search(s) ==
  IF \E i \in 1..Len(s) : s[i] = "D" THEN Some(<<"D">>) ELSE None

\* ------------------------------------------------------------ input values
\* The k-th uploaded file is named "p" * k: uploads have distinct names.
FileName(k) == [j \in 1..k |-> "p"]
Uploads(n) == {[k \in 1..m |-> [name |-> FileName(k)]] : m \in 0..n}
DoiFields == {<<>>, <<" ">>, <<"D">>, <<" ", "D">>}
UrlFields == {<<>>, <<" ">>, <<"u">>}
Lines == {<<" ">>, <<"D">>, <<" ", "u">>, <<"u", "D">>}

SeqsUpTo(S, n) == UNION {[1..k -> S] : k \in 0..n}

\* What a fetched page or an extracted PDF text of input x can hold: an
\* embedded DOI or not, a usable title or not.
Texts(x) ==
  {[doi |-> d, title |-> t] : d \in {None, Some(<<"D">> \o x)},
                              t \in {<<>>, <<"T">> \o x}}

\* ------------------------------------------------------- registry, records
crossref_to_meta(msg) == [doi |-> Strip(msg.DOI), title |-> Strip(msg.title)]

\* A call made while resolving an input.
Call(op, arg) == [op |-> op, arg |-> arg]

\* What a try block leaves behind: meta and route as last assigned, the
\* exception message if one was raised, and the calls made on the way.
TryResult(meta, route, calls) ==
  [meta |-> meta, route |-> route, exc |-> None, calls |-> calls]
Raised(msg, calls) ==
  [meta |-> None, route |-> "", exc |-> Some(msg), calls |-> calls]

\* msg = fetch_crossref_by_doi(d); meta = crossref_to_meta(msg); route = r
ByDoi(d, r, pre) ==
  LET c == Append(pre, Call("fetch_doi", d))
  IN {Raised("registry: HTTPError", c),
      TryResult(Some(crossref_to_meta([DOI |-> d, title |-> <<>>])), r, c)}

\* hit = search_crossref_by_title(t); if hit: meta = ...; route = r
ByTitle(t, r, pre) ==
  LET c == Append(pre, Call("search_title", t))
  IN IF ~Truthy(Strip(t)) THEN {TryResult(None, "", c)}
     ELSE {Raised("search: HTTPError", c),
           TryResult(None, "", c),
           TryResult(Some(crossref_to_meta([DOI |-> <<>>, title |-> t])), r, c)}

\* Mutant: the else branch (the title strategy) is missing.
FromText_DoiOnly(t, doiRoute, titleRoute, pre) ==
  IF Truthy(t.doi) THEN ByDoi(t.doi[1], doiRoute, pre)
  ELSE {TryResult(None, "", pre)}

\* if found: by DOI; else: guess a title and, if there is one, search by it.
FromText(t, doiRoute, titleRoute, pre) ==
  IF Truthy(t.doi) THEN ByDoi(t.doi[1], doiRoute, pre)
  ELSE LET c == Append(pre, Call("title_guess", <<>>))
       IN IF Truthy(t.title) THEN ByTitle(t.title, titleRoute, c)
          ELSE {TryResult(None, "", c)}

\* requests.get(u).text, then DOI in page, else <title>.
UrlBranch(u) ==
  LET c == <<Call("page", u)>>
  IN {Raised("page: ConnectionError", c)}
       \cup UNION {FromText(t, "url_doi", "url_title", c) : t \in Texts(u)}

\* extract_text_from_pdf_bytes: the text or the exception, and whether the
\* temporary file exists afterwards (had: whether it existed before).
extract_text_from_pdf_bytes(name, had) ==
  {[exc |-> Some("open: OSError"), text |-> None, tmp |-> had],
   [exc |-> Some("write: OSError"), text |-> None, tmp |-> TRUE],
   [exc |-> Some("extract: PDFSyntaxError"), text |-> None, tmp |-> FALSE]}
    \cup {[exc |-> None, text |-> Some(t), tmp |-> FALSE] : t \in Texts(name)}

\* text = extract...; d = find_doi_in_text(text); ... guess_title ...
PdfBranch(name, had) ==
  LET c == <<Call("extract", name)>>
  IN UNION {IF Truthy(x.exc)
              THEN {[r |-> Raised(x.exc[1], c), tmp |-> x.tmp]}
              ELSE {[r |-> r, tmp |-> x.tmp] :
                      r \in FromText(x.text[1], "pdf_doi", "pdf_title", c)}
            : x \in extract_text_from_pdf_bytes(name, had)}

\* ------------------------------------------------------------ audit, lists
AuditOk(input, route, meta) ==
  [input |-> input, route |-> route, success |-> TRUE, meta |-> Some(meta)]
AuditFail(input, route) ==
  [input |-> input, route |-> route, success |-> FALSE, meta |-> None]
AuditError(input, route, msg) ==
  [input |-> input, route |-> route, success |-> FALSE, error |-> msg,
   meta |-> None]

\* Mutant: results.append(meta) is forgotten.
Record_NoResult(L, input, r) ==
  IF Truthy(r.meta)
    THEN [results |-> L.results,
          audit |-> Append(L.audit, AuditOk(input, r.route, r.meta[1]))]
    ELSE [results |-> L.results,
          audit |-> Append(L.audit, AuditFail(input, r.route))]

\* if meta: results.append(meta); audit.append(ok) else: audit.append(fail)
Record(L, input, r) ==
  IF Truthy(r.meta)
    THEN [results |-> Append(L.results, r.meta[1]),
          audit |-> Append(L.audit, AuditOk(input, r.route, r.meta[1]))]
    ELSE [results |-> L.results,
          audit |-> Append(L.audit, AuditFail(input, r.route))]

\* Mutant: except Exception: pass (the handler appends no audit entry).
BatchRecord_Swallow(L, input, r, errRoute) ==
  IF Truthy(r.exc) THEN L
  ELSE IF Truthy(r.meta)
    THEN [results |-> Append(L.results, r.meta[1]),
          audit |-> Append(L.audit, AuditOk(input, r.route, r.meta[1]))]
    ELSE [results |-> L.results,
          audit |-> Append(L.audit, AuditFail(input, r.route))]

\* The batch loops' try/except around one item.
BatchRecord(L, input, r, errRoute) ==
  IF Truthy(r.exc)
    THEN [results |-> L.results,
          audit |-> Append(L.audit, AuditError(input, errRoute, r.exc[1]))]
    ELSE Record(L, input, r)

\* Mutant: the try is around the loop, so an exception ends it.
AfterItem_Break(i, n, r) == IF Truthy(r.exc) THEN n + 1 ELSE i + 1

\* The for loop goes on with the next item, exception or not.
AfterItem(i, n, r) == i + 1

\* items: the stripped non-blank lines of the list box, in order.
RECURSIVE ItemsOf(_)
ItemsOf(ls) ==
  IF ls = <<>> THEN <<>>
  ELSE IF Strip(Head(ls)) = <<>> THEN ItemsOf(Tail(ls))
       ELSE <<Strip(Head(ls))>> \o ItemsOf(Tail(ls))

\* ------------------------------------------------------ single-input handler
\* The try block of the single-input handler: first non-blank of DOI, URL, PDF.
SingleBranch(d, u, p, had) ==
  IF Truthy(Strip(d))
    THEN {[r |-> r, tmp |-> had] : r \in ByDoi(Strip(d), "doi", <<>>)}
  ELSE IF Truthy(Strip(u))
    THEN {[r |-> r, tmp |-> had] : r \in UrlBranch(Strip(u))}
  ELSE PdfBranch(p[1].name, had)

\* doi or url or (pdf.name if pdf else "")
SingleInput(d, u, p) ==
  IF Truthy(d) THEN d
  ELSE IF Truthy(u) THEN u
  ELSE IF Truthy(p) THEN p[1].name ELSE <<>>

\* Which input the try block resolves, and its original value.
SingleChosen(d, u, p) ==
  IF Truthy(Strip(d)) THEN [kind |-> "doi", input |-> d]
  ELSE IF Truthy(Strip(u)) THEN [kind |-> "url", input |-> u]
  ELSE [kind |-> "pdf", input |-> p[1].name]

\* The history entry of one processed input.
Traced(kind, input, r) ==
  [kind |-> kind, input |-> input, exc |-> r.exc, calls |-> r.calls]

\* The outcome the comparison run takes for the item: the same one, or, for
\* one failing item of the run, an outcome without an exception.
AltOf(r, all) ==
  IF failedAt = 0 /\ Truthy(r.exc)
    THEN {r} \cup {x \in all : ~Truthy(x.exc)}
    ELSE {r}

InitRun ==
  /\ pc = "idle"
  /\ mode = "none"
  /\ doi = <<>> /\ url = <<>> /\ pdf = None
  /\ pdfs = <<>> /\ list_box = <<>> /\ items = <<>>
  /\ idx = 0
  /\ results = <<>> /\ audit = <<>>
  /\ tmp = FALSE
  /\ risInput = None /\ auditDoc = None
  /\ trace = <<>>
  /\ alt = [results |-> <<>>, audit |-> <<>>]
  /\ failedAt = 0

Callers == 1..NCalls

\* No call has started and the temporary name does not exist.
InitCalls ==
  /\ cpc = [p \in Callers |-> "start"]
  /\ path = 0
  /\ data = [p \in Callers |-> 0]
  /\ fd = [p \in Callers |-> 0]
  /\ reads = [p \in Callers |-> {}]
  /\ ret = [p \in Callers |-> 0]
  /\ exc = [p \in Callers |-> FALSE]
  /\ hurt = {}

\* No message is being converted.
InitNoRis ==
  /\ stage = "off"
  /\ message = <<>> /\ record = <<>> /\ lines = <<>> /\ ris_text = <<>>

Init == InitRun /\ InitCalls /\ InitNoRis /\ variant = "base"

\* if st.button("Process single input"): ...
ProcessSingle ==
  /\ pc = "idle"
  /\ \E d \in DoiFields, u \in UrlFields,
        p \in {None, Some([name |-> FileName(1)])} :
       /\ doi' = d /\ url' = u /\ pdf' = p
       /\ IF ~(Truthy(Strip(d)) \/ Truthy(Strip(u)) \/ Truthy(p))
            THEN /\ mode' = "warning"
                 /\ UNCHANGED <<results, audit, tmp, trace, alt>>
            ELSE /\ mode' = "single"
                 /\ \E o \in SingleBranch(d, u, p, tmp) :
                      LET L == Record([results |-> results, audit |-> audit],
                                      SingleInput(d, u, p), o.r)
                      IN /\ results' = L.results
                         /\ audit' = L.audit
                         /\ alt' = L
                         /\ tmp' = o.tmp
                         /\ trace' = Append(trace,
                              Traced(SingleChosen(d, u, p).kind,
                                     SingleChosen(d, u, p).input, o.r))
  /\ pc' = "output"
  /\ UNCHANGED <<parVars, risVars>>
  /\ UNCHANGED <<pdfs, list_box, items, idx, risInput, auditDoc, failedAt>>

\* if st.button("Process batch"): items = the non-blank lines
StartBatch ==
  /\ pc = "idle"
  /\ \E ps \in Uploads(MaxPdfs),
        lb \in SeqsUpTo(Lines, MaxLines) :
       /\ pdfs' = ps
       /\ list_box' = lb
       /\ items' = ItemsOf(lb)
  /\ mode' = "batch"
  /\ pc' = "pdfs"
  /\ idx' = 1
  /\ UNCHANGED <<parVars, risVars>>
  /\ UNCHANGED <<doi, url, pdf, results, audit, tmp, risInput, auditDoc,
                 trace, alt, failedAt>>

\* One iteration of: for f in (pdfs or []): try ... except ...
BatchPdf ==
  /\ pc = "pdfs"
  /\ idx <= Len(pdfs)
  /\ LET f == pdfs[idx]
         all == PdfBranch(f.name, tmp)
     IN \E o \in all :
          \E o2 \in AltOf(o.r, {x.r : x \in all}) :
            LET L == BatchRecord([results |-> results, audit |-> audit],
                                 f.name, o.r, "pdf_error")
            IN /\ results' = L.results
               /\ audit' = L.audit
               /\ alt' = BatchRecord(alt, f.name, o2, "pdf_error")
               /\ failedAt' = IF o2 # o.r THEN Len(audit) + 1 ELSE failedAt
               /\ tmp' = o.tmp
               /\ trace' = Append(trace, Traced("pdf", f.name, o.r))
               /\ idx' = AfterItem(idx, Len(pdfs), o.r)
  /\ UNCHANGED <<parVars, risVars>>
  /\ UNCHANGED <<pc, mode, doi, url, pdf, pdfs, list_box, items, risInput,
                 auditDoc>>

\* The PDF loop is over; the list loop starts.
PdfsDone ==
  /\ pc = "pdfs"
  /\ idx > Len(pdfs)
  /\ pc' = "items"
  /\ idx' = 1
  /\ UNCHANGED <<parVars, risVars>>
  /\ UNCHANGED <<mode, doi, url, pdf, pdfs, list_box, items, results, audit,
                 tmp, risInput, auditDoc, trace, alt, failedAt>>

\* Mutant: the matched DOI, not the item, is fetched.
ItemBranch_MatchedDoi(item) ==
  IF Truthy(DOI_REGEX_search(item))
    THEN ByDoi(DOI_REGEX_search(item)[1], "doi", <<>>)
  ELSE UrlBranch(item)

\* The try block of one list item: a direct DOI if the pattern matches the item.
ItemBranch(item) ==
  IF Truthy(DOI_REGEX_search(item)) THEN ByDoi(item, "doi", <<>>)
  ELSE UrlBranch(item)

\* One iteration of: for item in items: try ... except ...
BatchItem ==
  /\ pc = "items"
  /\ idx <= Len(items)
  /\ LET item == items[idx]
         all == ItemBranch(item)
     IN \E r \in all :
          \E r2 \in AltOf(r, all) :
            LET L == BatchRecord([results |-> results, audit |-> audit],
                                 item, r, "url_error")
            IN /\ results' = L.results
               /\ audit' = L.audit
               /\ alt' = BatchRecord(alt, item, r2, "url_error")
               /\ failedAt' = IF r2 # r THEN Len(audit) + 1 ELSE failedAt
               /\ trace' = Append(trace,
                    Traced(IF Truthy(DOI_REGEX_search(item)) THEN "doi"
                           ELSE "url", item, r))
               /\ idx' = AfterItem(idx, Len(items), r)
  /\ UNCHANGED <<parVars, risVars>>
  /\ UNCHANGED <<pc, mode, doi, url, pdf, pdfs, list_box, items, tmp,
                 risInput, auditDoc>>

ItemsDone ==
  /\ pc = "items"
  /\ idx > Len(items)
  /\ pc' = "output"
  /\ UNCHANGED <<parVars, risVars>>
  /\ UNCHANGED <<mode, doi, url, pdf, pdfs, list_box, items, idx, results,
                 audit, tmp, risInput, auditDoc, trace, alt, failedAt>>

\* json.dumps(a, ensure_ascii=False): one line holding the entry.
json_dumps(a) == [line |-> a]

\* Output area: if results: RIS and audit downloads, else the info message.
Output ==
  /\ pc = "output"
  /\ IF results # <<>>
       THEN /\ risInput' = Some(results)
            /\ auditDoc' = Some([j \in 1..Len(audit) |-> json_dumps(audit[j])])
       ELSE /\ risInput' = None
            /\ auditDoc' = None
  /\ pc' = "done"
  /\ UNCHANGED <<parVars, risVars>>
  /\ UNCHANGED <<mode, doi, url, pdf, pdfs, list_box, items, idx, results,
                 audit, tmp, trace, alt, failedAt>>

Next ==
  \/ ProcessSingle
  \/ StartBatch
  \/ BatchPdf
  \/ PdfsDone
  \/ BatchItem
  \/ ItemsDone
  \/ Output

Spec == Init /\ [][Next]_vars

\* ------------------------------------- extract_text_from_pdf_bytes, by steps
\* The temporary file's name: a fixed one in each variant of the script.
TmpName(v) == IF v = "base" THEN "._tmp_upload.pdf" ELSE ".__upload.pdf"
tmp_name(p) == TmpName(variant)

\* Call q has opened its temporary file and has not yet reached its finally.
InUse(q) == cpc[q] \in {"opened", "written", "second"}

\* The call ends its try block with an exception pending.
Fail(p) ==
  /\ exc' = [exc EXCEPT ![p] = TRUE]
  /\ cpc' = [cpc EXCEPT ![p] = "finally"]
  /\ UNCHANGED ret

\* The call ends its try block with the text of content c ("" for 0).
Text(p, c) ==
  /\ ret' = [ret EXCEPT ![p] = c]
  /\ cpc' = [cpc EXCEPT ![p] = "finally"]
  /\ UNCHANGED exc

\* The primary backend gave nothing: the baseline raises (or returns ""),
\* the fixed variant goes on to the second backend.
NoText(p) ==
  IF variant = "base"
    THEN Fail(p) \/ Text(p, 0)
    ELSE /\ cpc' = [cpc EXCEPT ![p] = "second"]
         /\ UNCHANGED <<ret, exc>>

\* open(name, "wb"): creates the file or truncates the one the name points to.
Open(p) ==
  /\ cpc[p] = "start"
  /\ \/ /\ cpc' = [cpc EXCEPT ![p] = "raised"]
        /\ exc' = [exc EXCEPT ![p] = TRUE]
        /\ UNCHANGED <<path, data, fd, hurt>>
     \/ /\ path' = (IF path = 0 THEN p ELSE path)
        /\ data' = [data EXCEPT ![path'] = 0]
        /\ fd' = [fd EXCEPT ![p] = path']
        /\ hurt' = hurt \cup {q \in Callers \ {p} : InUse(q) /\ path # 0}
        /\ cpc' = [cpc EXCEPT ![p] = "opened"]
        /\ UNCHANGED exc
  /\ UNCHANGED <<variant, reads, ret>>
  /\ UNCHANGED <<runVars, risVars>>

\* f.write(pdf_bytes) and close, outside the try: a failure leaves the file.
Write(p) ==
  /\ cpc[p] = "opened"
  /\ \/ /\ data' = [data EXCEPT ![fd[p]] = p]
        /\ cpc' = [cpc EXCEPT ![p] = "written"]
        /\ UNCHANGED exc
     \/ /\ cpc' = [cpc EXCEPT ![p] = "raised"]
        /\ exc' = [exc EXCEPT ![p] = TRUE]
        /\ UNCHANGED data
  /\ UNCHANGED <<variant, path, fd, reads, ret, hurt>>
  /\ UNCHANGED <<runVars, risVars>>

\* extract_text(name): reads whatever the name points to now.
Extract(p) ==
  /\ cpc[p] = "written"
  /\ IF path = 0
       THEN /\ NoText(p)
            /\ UNCHANGED reads
       ELSE /\ reads' = [reads EXCEPT ![p] = @ \cup {data[path]}]
            /\ \/ data[path] # 0 /\ Text(p, data[path])
               \/ NoText(p)
  /\ UNCHANGED <<variant, path, data, fd, hurt>>
  /\ UNCHANGED <<runVars, risVars>>

\* Fixed variant: PdfReader(name) when the first backend gave no text; its
\* exceptions are swallowed.
Extract2(p) ==
  /\ cpc[p] = "second"
  /\ IF path = 0
       THEN /\ Text(p, 0)
            /\ UNCHANGED reads
       ELSE /\ reads' = [reads EXCEPT ![p] = @ \cup {data[path]}]
            /\ \/ data[path] # 0 /\ Text(p, data[path])
               \/ Text(p, 0)
  /\ UNCHANGED <<variant, path, data, fd, hurt>>
  /\ UNCHANGED <<runVars, risVars>>

\* finally: try: os.remove(name) except: pass; then return or re-raise.
Remove(p) ==
  /\ cpc[p] = "finally"
  /\ IF path # 0
       THEN /\ path' = 0
            /\ hurt' = hurt \cup {q \in Callers \ {p} : InUse(q)}
       ELSE UNCHANGED <<path, hurt>>
  /\ cpc' = [cpc EXCEPT ![p] = IF exc[p] THEN "raised" ELSE "returned"]
  /\ UNCHANGED <<variant, data, fd, reads, ret, exc>>
  /\ UNCHANGED <<runVars, risVars>>

InitPar == InitRun /\ InitCalls /\ InitNoRis /\ variant \in {"base", "fixed"}

NextPar ==
  \E p \in Callers :
    \/ Open(p)
    \/ Write(p)
    \/ Extract(p)
    \/ Extract2(p)
    \/ Remove(p)

SpecPar == InitPar /\ [][NextPar]_vars

\* ------------------------------------------------------- RIS serialization
\* v.replace("\n", " ")
RECURSIVE Replace_newline(_)
Replace_newline(v) ==
  IF v = <<>> THEN <<>>
  ELSE <<IF Head(v) = "\n" THEN " " ELSE Head(v)>>
         \o Replace_newline(Tail(v))

ris_escape(v) == Strip(Replace_newline(v))

\* f"{t1}{t2}  - {v}"
TagLine(t1, t2, v) == <<t1, t2, " ", " ", "-", " ">> \o v

\* if meta.get(field): lines.append(line)
Opt(field, line) == IF Truthy(field) THEN <<line>> ELSE <<>>

\* for a in vs: if a: lines.append(f"{t1}{t2}  - {ris_escape(a)}")
RECURSIVE EachLine(_, _, _)
EachLine(t1, t2, vs) ==
  IF vs = <<>> THEN <<>>
  ELSE Opt(Head(vs), TagLine(t1, t2, ris_escape(Head(vs))))
         \o EachLine(t1, t2, Tail(vs))

GEN == <<"G", "E", "N">>

to_ris_lines_AuthorsFirst(meta) ==
  <<TagLine("T", "Y", IF Truthy(meta.type) THEN meta.type ELSE GEN)>>
    \o Opt(meta.title, TagLine("T", "I", ris_escape(meta.title)))
    \o Opt(meta.journal, TagLine("T", "2", ris_escape(meta.journal)))
    \o EachLine("A", "U", meta.authors)
    \o Opt(meta.publisher, TagLine("P", "B", ris_escape(meta.publisher)))
    \o Opt(meta.year, TagLine("P", "Y", meta.year))
    \o Opt(meta.volume, TagLine("V", "L", meta.volume))
    \o Opt(meta.issue, TagLine("I", "S", meta.issue))
    \o Opt(meta.sp, TagLine("S", "P", meta.sp))
    \o Opt(meta.ep, TagLine("E", "P", meta.ep))
    \o Opt(meta.doi, TagLine("D", "O", meta.doi))
    \o Opt(meta.url, TagLine("U", "R", meta.url))
    \o Opt(meta.abstract, TagLine("A", "B", ris_escape(meta.abstract)))
    \o EachLine("K", "W", meta.keywords)
    \o <<TagLine("E", "R", <<>>)>>

\* to_ris_lines: the tag lines of one record.  year, volume, issue, sp, ep,
\* doi and url are written as they are, the other values through ris_escape.
to_ris_lines(meta) ==
  <<TagLine("T", "Y", IF Truthy(meta.type) THEN meta.type ELSE GEN)>>
    \o Opt(meta.title, TagLine("T", "I", ris_escape(meta.title)))
    \o Opt(meta.journal, TagLine("T", "2", ris_escape(meta.journal)))
    \o Opt(meta.publisher, TagLine("P", "B", ris_escape(meta.publisher)))
    \o Opt(meta.year, TagLine("P", "Y", meta.year))
    \o Opt(meta.volume, TagLine("V", "L", meta.volume))
    \o Opt(meta.issue, TagLine("I", "S", meta.issue))
    \o EachLine("A", "U", meta.authors)
    \o Opt(meta.sp, TagLine("S", "P", meta.sp))
    \o Opt(meta.ep, TagLine("E", "P", meta.ep))
    \o Opt(meta.doi, TagLine("D", "O", meta.doi))
    \o Opt(meta.url, TagLine("U", "R", meta.url))
    \o Opt(meta.abstract, TagLine("A", "B", ris_escape(meta.abstract)))
    \o EachLine("K", "W", meta.keywords)
    \o <<TagLine("E", "R", <<>>)>>

\* sep.join(parts)
RECURSIVE Join(_, _)
Join(parts, sep) ==
  IF parts = <<>> THEN <<>>
  ELSE IF Len(parts) = 1 THEN parts[1]
  ELSE parts[1] \o sep \o Join(Tail(parts), sep)

\* meta_to_ris: the blocks of the records joined by newlines, and a final
\* newline when there is a block.
meta_to_ris(meta_list) ==
  LET blocks == [i \in 1..Len(meta_list) |->
                   Join(to_ris_lines(meta_list[i]), <<"\n">>)]
  IN Join(blocks, <<"\n">>) \o (IF blocks # <<>> THEN <<"\n">> ELSE <<>>)

\* ------------------------------------------------- registry message to record
\* msg.get(key): a missing key gives None.
Get(msg, key) == IF key \in DOMAIN msg THEN msg[key] ELSE None

\* (s or "").strip()
clean(s) == Strip(s)

normalize_author(crossref_author) ==
  LET given == clean(Get(crossref_author, "given"))
      family == clean(Get(crossref_author, "family"))
  IN IF Truthy(family) /\ Truthy(given)
       THEN family \o <<",", " ">> \o given
     ELSE IF Truthy(family) THEN family
     ELSE given

\* "j", "a" stand for "journal-article", and so on for the other nine keys.
TYPE_MAP ==
  (<<"j", "a">> :> <<"J", "O", "U", "R">>)
    @@ (<<"p", "a">> :> <<"C", "P", "A", "P", "E", "R">>)
    @@ (<<"b", "c">> :> <<"C", "H", "A", "P">>)
    @@ (<<"b">> :> <<"B", "O", "O", "K">>)
    @@ (<<"r">> :> <<"R", "P", "R", "T">>)
    @@ (<<"t">> :> <<"T", "H", "E", "S">>)
    @@ (<<"r", "e">> :> GEN)
    @@ (<<"p", "c">> :> GEN)
    @@ (<<"d">> :> <<"D", "A", "T", "A">>)
    @@ (<<"s">> :> <<"S", "T", "D">>)

\* str.lower(), on the letters the type names are written with.
lower(s) ==
  [i \in 1..Len(s) |->
     CASE s[i] = "J" -> "j"
       [] s[i] = "A" -> "a"
       [] s[i] = "B" -> "b"
       [] OTHER -> s[i]]

Digits == <<"0", "1", "2", "3", "4", "5", "6", "7", "8", "9">>

\* str(n) of a natural number.
RECURSIVE str(_)
str(n) ==
  IF n < 10 THEN <<Digits[n + 1]>>
  ELSE str(n \div 10) \o <<Digits[(n % 10) + 1]>>

\* crossref_first_year over the keys still to try.  The first element of a
\* date part is None (int(None) raises, the loop goes on) or Some(number).
RECURSIVE first_year(_, _)
first_year(msg, keys) ==
  IF keys = <<>> THEN None
  ELSE LET parts == Get(msg, Head(keys))
       IN IF Truthy(parts) /\ Truthy(parts[1]) /\ Truthy(parts[1][1])
            THEN str(parts[1][1][1])
            ELSE first_year(msg, Tail(keys))

crossref_first_year(msg) ==
  first_year(msg, <<"published-print", "issued", "created",
                    "published-online">>)

\* re.sub(r"<[^>]+>", " ", s)
RECURSIVE re_sub_tags(_)
re_sub_tags(s) ==
  IF s = <<>> THEN <<>>
  ELSE LET ends == {j \in 3..Len(s) :
                      /\ s[j] = ">"
                      /\ \A k \in 2..(j - 1) : s[k] # ">"}
       IN IF s[1] = "<" /\ ends # {}
            THEN <<" ">>
                   \o re_sub_tags(SubSeq(s, (CHOOSE j \in ends : TRUE) + 1,
                                         Len(s)))
            ELSE <<s[1]>> \o re_sub_tags(Tail(s))

\* "<", "j", ":" stand for the prefix "<jats:".
startswith_jats(s) == Len(s) >= 3 /\ SubSeq(s, 1, 3) = <<"<", "j", ":">>

\* page.split("-", 1), each part stripped; the page itself when it has no "-".
split_page(page) ==
  LET dashes == {i \in 1..Len(page) : page[i] = "-"}
  IN IF dashes # {}
       THEN LET i == CHOOSE d \in dashes : \A e \in dashes : d <= e
            IN [sp |-> Strip(SubSeq(page, 1, i - 1)),
                ep |-> Strip(SubSeq(page, i + 1, Len(page)))]
       ELSE [sp |-> Strip(page), ep |-> <<>>]

FirstOf(list) == IF Truthy(list) THEN list[1] ELSE <<>>

\* crossref_to_meta with every field of the record (crossref_to_meta above
\* keeps the two fields the run's audit entries are told apart by).
crossref_to_meta_full(msg) ==
  LET ctype == lower(Get(msg, "type"))
      author == Get(msg, "author")
      pages == split_page(clean(Get(msg, "page")))
      abstract == clean(Get(msg, "abstract"))
      subj == Get(msg, "subject")
  IN [type |-> IF ctype \in DOMAIN TYPE_MAP THEN TYPE_MAP[ctype] ELSE GEN,
      title |-> clean(FirstOf(Get(msg, "title"))),
      authors |-> [i \in 1..Len(author) |-> normalize_author(author[i])],
      year |-> crossref_first_year(msg),
      journal |-> clean(FirstOf(Get(msg, "container-title"))),
      volume |-> clean(Get(msg, "volume")),
      issue |-> clean(Get(msg, "issue")),
      sp |-> pages.sp,
      ep |-> pages.ep,
      doi |-> clean(Get(msg, "DOI")),
      url |-> clean(Get(msg, "URL")),
      publisher |-> clean(Get(msg, "publisher")),
      abstract |-> IF startswith_jats(abstract)
                     THEN Strip(re_sub_tags(abstract))
                     ELSE abstract,
      keywords |-> [i \in 1..Len(subj) |-> Strip(subj[i])]]

\* --------------------------------------------------- conversion: the inputs
\* Every present field of one input holds a value of one kind: a plain one,
\* one with a newline inside, or one of white space only.
Flavours == {"plain", "newline", "blank"}

Val(fl) ==
  CASE fl = "plain" -> <<"a">>
    [] fl = "newline" -> <<"a", "\n", "b">>
    [] fl = "blank" -> <<" ", "\n">>

JOUR == <<"J", "O", "U", "R">>

RecordFields ==
  {"type", "title", "journal", "publisher", "year", "volume", "issue",
   "sp", "ep", "doi", "url", "abstract"}

\* A record as a caller of to_ris_lines may build it: the fields in present
\* hold a value, the others are empty or missing.
RecOf(present, fl, au, kw) ==
  LET F(k) == IF k \in present THEN Val(fl) ELSE <<>>
  IN [type |-> IF "type" \in present THEN JOUR ELSE <<>>,
      title |-> F("title"), authors |-> au, year |-> F("year"),
      journal |-> F("journal"), volume |-> F("volume"),
      issue |-> F("issue"), sp |-> F("sp"), ep |-> F("ep"),
      doi |-> F("doi"), url |-> F("url"), publisher |-> F("publisher"),
      abstract |-> F("abstract"), keywords |-> kw]

ListVals(fl) == SeqsUpTo({<<>>, Val(fl), <<"c">>}, MaxList)

\* Any set of scalar fields with no list or a fixed one, and any two lists
\* with no scalar field or all of them.
GivenRecords(fl) ==
  {RecOf(present, fl, l, l) :
     present \in SUBSET RecordFields,
     l \in {<<>>, <<Val(fl), <<>>, <<"c">>>>}}
  \cup
  {RecOf(present, fl, au, kw) :
     present \in {{}, RecordFields},
     au \in ListVals(fl), kw \in ListVals(fl)}

MessageFields ==
  {"type", "title", "container-title", "author", "page", "abstract",
   "subject", "volume", "issue", "DOI", "URL", "publisher"}

\* The value a registry message holds under a key: padded with white space,
\* in the shape the registry gives that key.
RawValue(key, fl) ==
  LET v == <<" ">> \o Val(fl)
  IN CASE key = "type" ->
            (CASE fl = "plain" -> <<"j", "a">>
               [] fl = "newline" -> <<"J", "A">>
               [] fl = "blank" -> <<"z">>)
       [] key \in {"title", "container-title"} -> <<v, <<"b">>>>
       [] key = "author" ->
            <<[given |-> v, family |-> v], [family |-> v],
              [given |-> <<" ">>], [given |-> <<"c">>]>>
       [] key = "page" ->
            (CASE fl = "plain" -> <<" ", "a", "-", "b", "-", "c">>
               [] fl = "newline" -> v
               [] fl = "blank" -> <<" ", "-">>)
       [] key = "abstract" ->
            (CASE fl = "plain" -> v
               [] fl = "newline" ->
                    <<"<", "j", ":", ">", "a", "\n", "b", "<", "/", ">">>
               [] fl = "blank" -> <<"<", "j", ":", ">", "<", ">", " ">>)
       [] key = "subject" -> <<v, <<" ">>, <<"c">>>>
       [] OTHER -> v

\* date-parts under the four date keys: [[y]] is <<<<Some(y)>>>>, [[None]]
\* is <<<<None>>>>.
DateParts ==
  {<<>>,
   "issued" :> <<<<Some(7)>>>>,
   ("published-print" :> <<<<Some(12)>>>>) @@ ("issued" :> <<<<Some(7)>>>>),
   ("published-print" :> <<<<None>>>>) @@ ("created" :> <<<<Some(8)>>>>),
   ("published-print" :> <<<<>>>>) @@ ("published-online" :> <<<<Some(9)>>>>)}

MsgOf(present, fl, dates) ==
  [key \in present |-> RawValue(key, fl)] @@ dates

\* Any set of keys with one date, and any dates with no key or all of them.
Messages(fl) ==
  {MsgOf(present, fl, "issued" :> <<<<Some(7)>>>>) :
     present \in SUBSET MessageFields}
  \cup
  {MsgOf(present, fl, dates) :
     present \in {{}, MessageFields}, dates \in DateParts}

\* ------------------------------------------------- conversion: the program
\* A message to convert, or a record given to to_ris_lines as it is.
InitInput ==
  \E fl \in Flavours :
    \/ /\ stage = "message"
       /\ message \in Messages(fl)
       /\ record = <<>>
       /\ lines = <<>> /\ ris_text = <<>>
    \/ /\ stage = "record"
       /\ message = <<>>
       /\ record \in GivenRecords(fl)
       /\ lines = <<>> /\ ris_text = <<>>

\* meta = crossref_to_meta(msg)
Normalize ==
  /\ stage = "message"
  /\ record' = crossref_to_meta_full(message)
  /\ stage' = "record"
  /\ UNCHANGED <<message, lines, ris_text>>
  /\ UNCHANGED <<runVars, parVars>>

\* ris_text = meta_to_ris([meta]); lines is its to_ris_lines(meta).
Serialize ==
  /\ stage = "record"
  /\ lines' = to_ris_lines(record)
  /\ ris_text' = meta_to_ris(<<record>>)
  /\ stage' = "text"
  /\ UNCHANGED <<message, record>>
  /\ UNCHANGED <<runVars, parVars>>

NextRis == Normalize \/ Serialize

InitRis == InitRun /\ InitCalls /\ variant = "base" /\ InitInput

SpecRis == InitRis /\ [][NextRis]_vars

\* ----------------------------------------------------------------- claims
\* The identifiers the batch run processes, in processing order.
BatchInputs == [j \in 1..Len(pdfs) |-> pdfs[j].name] \o items

NonBlankLines == {i \in 1..Len(list_box) : Strip(list_box[i]) # <<>>}

Finished == pc \in {"output", "done"}

RemoveAt(s, k) ==
  IF k \in 1..Len(s)
    THEN [j \in 1..(Len(s) - 1) |-> IF j < k THEN s[j] ELSE s[j + 1]]
    ELSE s

RECURSIVE SuccessMetas(_)
SuccessMetas(a) ==
  IF a = <<>> THEN <<>>
  ELSE (IF Head(a).success /\ Truthy(Head(a).meta)
          THEN <<Head(a).meta[1]>> ELSE <<>>) \o SuccessMetas(Tail(a))

\* C1: every processed input appends exactly one audit entry, whatever its
\* outcome: during the PDF loop the audit list holds one entry per PDF done,
\* during the list loop one more per item done, after a batch of N PDFs and M
\* non-blank lines exactly N+M, entry j being that of the j-th input in
\* processing order; a single-input run with an input appends exactly one.
C1_OneAuditEntryPerInput ==
  /\ mode = "batch" =>
       /\ pc = "pdfs" => Len(audit) = idx - 1
       /\ pc = "items" => Len(audit) = Len(pdfs) + idx - 1
       /\ Finished => Len(audit) = Len(pdfs) + Cardinality(NonBlankLines)
       /\ Len(audit) <= Len(BatchInputs)
       /\ \A j \in 1..Len(audit) : audit[j].input = BatchInputs[j]
  /\ mode = "single" => Len(audit) = 1
  /\ mode \in {"none", "warning"} => audit = <<>>

\* A finished batch of three inputs: one raised, one gave a record, one gave
\* none without raising.
C1_Witness ==
  /\ pc = "done" /\ mode = "batch"
  /\ Len(pdfs) = 1 /\ Len(items) = 2 /\ Len(audit) = 3
  /\ \E j \in 1..3 : "error" \in DOMAIN audit[j]
  /\ \E j \in 1..3 : audit[j].success
  /\ \E j \in 1..3 : ~audit[j].success /\ "error" \notin DOMAIN audit[j]

\* C2: in a batch an exception at item k does not stop the loop: every item
\* is processed, item k's entry has success = FALSE, and the entries and
\* records of the other items are those, in the same order, of the run in
\* which item k did not raise.
C2_FailureIsolated ==
  /\ mode = "batch" /\ Finished =>
       /\ Len(audit) = Len(BatchInputs)
       /\ Len(alt.audit) = Len(BatchInputs)
  /\ \A j \in 1..Len(audit) :
       Truthy(trace[j].exc) => ~audit[j].success
  /\ failedAt = 0 => audit = alt.audit /\ results = alt.results
  /\ failedAt # 0 =>
       /\ failedAt \in 1..Len(audit)
       /\ Truthy(trace[failedAt].exc)
       /\ ~audit[failedAt].success
       /\ RemoveAt(audit, failedAt) = RemoveAt(alt.audit, failedAt)
       /\ results =
            IF alt.audit[failedAt].success
              THEN RemoveAt(alt.results,
                     Cardinality({j \in 1..failedAt : alt.audit[j].success}))
              ELSE alt.results

\* Three inputs, the second raised where the comparison run got a record, the
\* first and the third gave records.
C2_Witness ==
  /\ pc = "done" /\ mode = "batch"
  /\ Len(audit) = 3 /\ failedAt = 2
  /\ audit[1].success /\ audit[3].success
  /\ alt.audit[2].success
  /\ Len(results) = 2 /\ Len(alt.results) = 3

\* C3: an exception raised while resolving an input, single or batch, yields
\* an audit entry with success = FALSE, the error route of the input's kind
\* and the exception message in its error field.
C3_ExceptionAudited ==
  \A j \in 1..Len(audit) :
    Truthy(trace[j].exc) =>
      /\ ~audit[j].success
      /\ audit[j].route =
           (IF trace[j].kind = "pdf" THEN "pdf_error" ELSE "url_error")
      /\ "error" \in DOMAIN audit[j]
      /\ audit[j].error = trace[j].exc[1]

Ops(t) == {t.calls[i].op : i \in 1..Len(t.calls)}

\* C4: a URL or PDF input ends without a record only after every strategy of
\* its kind was attempted: when the fetch by an embedded DOI gave no record,
\* the title strategy was attempted too.
C4_AllStrategiesTried ==
  \A j \in 1..Len(audit) :
    (~audit[j].success /\ trace[j].kind \in {"url", "pdf"}
       /\ "fetch_doi" \in Ops(trace[j]))
      => "title_guess" \in Ops(trace[j])

\* C4 as amended: for a URL or PDF input the DOI strategy and the title
\* strategy are alternatives chosen by the text: both are never attempted
\* for one input; an input ends without a record and without an exception
\* only after the title strategy was attempted; a fetch by an embedded DOI
\* gives no record only by raising, and the title strategy is then not tried.
C4_StrategiesAreAlternatives ==
  \A j \in 1..Len(audit) :
    trace[j].kind \in {"url", "pdf"} =>
      /\ ~("fetch_doi" \in Ops(trace[j]) /\ "title_guess" \in Ops(trace[j]))
      /\ (~audit[j].success /\ ~Truthy(trace[j].exc))
           => "title_guess" \in Ops(trace[j])
      /\ (~audit[j].success /\ "fetch_doi" \in Ops(trace[j]))
           => Truthy(trace[j].exc)

\* An input in whose text a DOI was found and whose registry call raised: no
\* record, and no title strategy.
C4_Witness ==
  \E j \in 1..Len(audit) :
    /\ trace[j].kind \in {"url", "pdf"}
    /\ ~audit[j].success
    /\ "fetch_doi" \in Ops(trace[j])
    /\ Truthy(trace[j].exc)
    /\ "title_guess" \notin Ops(trace[j])

\* The route of the strategy attempted last, "" when none was entered.
LastAttempted(t) ==
  LET last == {i \in 1..Len(t.calls) :
                 /\ t.calls[i].op \in {"fetch_doi", "search_title"}
                 /\ \A k \in (i + 1)..Len(t.calls) :
                      t.calls[k].op \notin {"fetch_doi", "search_title"}}
  IN IF last = {} THEN ""
     ELSE LET c == t.calls[CHOOSE i \in last : TRUE]
          IN IF t.kind = "doi" THEN "doi"
             ELSE IF c.op = "fetch_doi" THEN t.kind \o "_doi"
             ELSE t.kind \o "_title"

\* C5: an input that ends without a record and without an exception has the
\* route of the strategy attempted last, and the empty route only when no
\* strategy was entered.
C5_RouteNamesLastAttempt ==
  \A j \in 1..Len(audit) :
    (~audit[j].success /\ ~Truthy(trace[j].exc))
      => audit[j].route = LastAttempted(trace[j])

\* C6: the record list is the sequence of the records of the audit entries
\* with success = TRUE, in order; an entry has success = TRUE exactly when it
\* carries a record; the list handed to the RIS serializer is that sequence.
C6_ResultsMatchAudit ==
  /\ \A j \in 1..Len(audit) : audit[j].success <=> Truthy(audit[j].meta)
  /\ results = SuccessMetas(audit)
  /\ Truthy(risInput) => risInput[1] = SuccessMetas(audit)
  /\ (pc = "done" /\ SuccessMetas(audit) # <<>>) => Truthy(risInput)

\* An exported batch of three inputs: records from the first and the third,
\* none from the second.
C6_Witness ==
  /\ pc = "done" /\ mode = "batch"
  /\ Len(audit) = 3 /\ audit[1].success /\ ~audit[2].success
  /\ audit[3].success
  /\ audit[1].meta # audit[3].meta
  /\ risInput = Some(results) /\ Len(results) = 2

\* C7: after a batch run with at least one audit entry the audit document is
\* produced at export and holds one line per audit entry, also when every
\* item failed.
C7_AuditDocumentProduced ==
  (pc = "done" /\ mode = "batch" /\ Len(audit) >= 1)
    => /\ Truthy(auditDoc)
       /\ Len(auditDoc[1]) = Len(audit)
       /\ \A j \in 1..Len(audit) : auditDoc[1][j] = json_dumps(audit[j])

\* C8: the input field of every audit entry is the original identifier of
\* the input that was resolved for it; in single-input mode that of the first
\* of DOI, URL, PDF whose stripped value is non-empty.
C8_AuditInputIsResolvedInput ==
  \A j \in 1..Len(audit) : audit[j].input = trace[j].input

\* C9: whenever a PDF text extraction has returned or raised, its temporary
\* file no longer exists.
C9_TmpFileRemoved == tmp = FALSE

\* C10: two extraction calls whose executions interleave never use the same
\* temporary file name: each call reads back only the bytes it wrote, and no
\* call removes or overwrites a file another call is still using.
C10_NoTmpCollision ==
  /\ \A p, q \in Callers :
       (p # q /\ InUse(p) /\ InUse(q)) => tmp_name(p) # tmp_name(q)
  /\ \A p \in Callers : reads[p] \subseteq {p}
  /\ hurt = {}

\* The tag and the value of a line "XX  - value".
TagOf(l) == SubSeq(l, 1, 2)
ValueOf(l) == SubSeq(l, 7, Len(l))
IsTagLine(l) == Len(l) >= 6 /\ SubSeq(l, 3, 6) = <<" ", " ", "-", " ">>

TagOrder ==
  <<<<"T", "Y">>, <<"T", "I">>, <<"T", "2">>, <<"P", "B">>, <<"P", "Y">>,
    <<"V", "L">>, <<"I", "S">>, <<"A", "U">>, <<"S", "P">>, <<"E", "P">>,
    <<"D", "O">>, <<"U", "R">>, <<"A", "B">>, <<"K", "W">>, <<"E", "R">>>>

Rank(t) == CHOOSE i \in 1..Len(TagOrder) : TagOrder[i] = t

\* The record field written under each scalar tag.
FieldOfTag ==
  (<<"T", "I">> :> "title") @@ (<<"T", "2">> :> "journal")
    @@ (<<"P", "B">> :> "publisher") @@ (<<"P", "Y">> :> "year")
    @@ (<<"V", "L">> :> "volume") @@ (<<"I", "S">> :> "issue")
    @@ (<<"S", "P">> :> "sp") @@ (<<"E", "P">> :> "ep")
    @@ (<<"D", "O">> :> "doi") @@ (<<"U", "R">> :> "url")
    @@ (<<"A", "B">> :> "abstract")

\* The values of the lines of ls under tag t, in order.
ValuesOf(ls, t) ==
  LET tagged == SelectSeq(ls, LAMBDA l : IsTagLine(l) /\ TagOf(l) = t)
  IN [i \in 1..Len(tagged) |-> ValueOf(tagged[i])]

NonEmpty(vs) == SelectSeq(vs, Truthy)

C12_NoEmptyTagValue ==
  stage = "text" =>
    \A i \in 1..Len(lines) :
      TagOf(lines[i]) # <<"E", "R">> => ValueOf(lines[i]) # <<>>

\* text.splitlines()
RECURSIVE SplitLines(_)
SplitLines(text) ==
  LET nl == {i \in 1..Len(text) : text[i] = "\n"}
  IN IF text = <<>> THEN <<>>
     ELSE IF nl = {} THEN <<text>>
     ELSE LET i == CHOOSE n \in nl : \A o \in nl : n <= o
          IN <<SubSeq(text, 1, i - 1)>>
               \o SplitLines(SubSeq(text, i + 1, Len(text)))

\* C13: for the record crossref_to_meta makes of a registry message, the
\* text meta_to_ris writes for it, split into lines and each "XX  - value"
\* line read back, gives every non-empty field of the record its value, with
\* the newlines inside a value turned into spaces: the type, each scalar
\* field under its tag, the non-empty authors and keywords in order.
C13_RoundTrip ==
  (stage = "text" /\ record = crossref_to_meta_full(message)) =>
    LET back == SplitLines(ris_text)
        au == NonEmpty(record.authors)
        kw == NonEmpty(record.keywords)
    IN /\ ValuesOf(back, <<"T", "Y">>) = <<record.type>>
       /\ \A t \in DOMAIN FieldOfTag :
            record[FieldOfTag[t]] # <<>> =>
              ValuesOf(back, t) = <<Replace_newline(record[FieldOfTag[t]])>>
       /\ ValuesOf(back, <<"A", "U">>)
            = [i \in 1..Len(au) |-> Replace_newline(au[i])]
       /\ ValuesOf(back, <<"K", "W">>)
            = [i \in 1..Len(kw) |-> Replace_newline(kw[i])]

\* The audit positions of the list items a batch run has processed.
ListEntries ==
  IF mode = "batch" THEN (Len(pdfs) + 1)..Len(audit) ELSE {}

HasDoi(item) == \E i \in 1..Len(item) : item[i] = "D"

PageCalls(t) == {i \in 1..Len(t.calls) : t.calls[i].op = "page"}
RegistryCalls(t) ==
  {i \in 1..Len(t.calls) : t.calls[i].op \in {"fetch_doi", "search_title"}}

\* C14: in a batch run a list item in which the DOI pattern matches
\* somewhere, a URL holding a DOI included, is resolved by the direct DOI
\* strategy: no page is fetched, the one call is the fetch by DOI and its
\* argument is the whole item, and the route is "doi" when it gave a record
\* and "url_error" when it raised.  For every other item exactly one page
\* fetch is made, of the item, before any registry call.
C14_DirectDoiExactlyOnMatch ==
  \A j \in ListEntries :
    LET item == items[j - Len(pdfs)]
        t == trace[j]
    IN IF HasDoi(item)
         THEN /\ PageCalls(t) = {}
              /\ t.calls = <<[op |-> "fetch_doi", arg |-> item]>>
              /\ audit[j].success <=> ~Truthy(t.exc)
              /\ audit[j].route
                   = (IF audit[j].success THEN "doi" ELSE "url_error")
         ELSE /\ PageCalls(t) = {1}
              /\ t.calls[1].arg = item
              /\ \A i \in RegistryCalls(t) : i > 1
              /\ audit[j].route # "doi"

\* A finished batch whose list held a URL with a DOI in it, fetched whole by
\* DOI with a record, and a URL without one, whose page was fetched before
\* the registry was asked.
C14_Witness ==
  /\ pc = "done"
  /\ \E j, k \in ListEntries :
       /\ items[j - Len(pdfs)] = <<"u", "D">>
       /\ trace[j].calls = <<[op |-> "fetch_doi", arg |-> <<"u", "D">>]>>
       /\ audit[j].success /\ audit[j].route = "doi"
       /\ ~HasDoi(items[k - Len(pdfs)])
       /\ PageCalls(trace[k]) = {1}
       /\ RegistryCalls(trace[k]) # {}

====
